---------------------------- MODULE Spec2Model ----------------------------
(***************************************************************************)
(* A model of the DBV ranking scraper: the table parser of scraper.py      *)
(* (header normalizer, cell and identifier extractors, record normalizer), *)
(* the page loop of main.py and the CSV / SQLite sinks.                    *)
(*                                                                         *)
(* Text is a sequence of tokens.  A token is a one-character string for    *)
(* the characters the code looks at (digits, "-", " ", ".", "(", ")") and  *)
(* a longer string for a run of letters the code only copies ("Jane").     *)
(* A Python value is a tagged record: IntV(n) for an int, StrV(s) for a    *)
(* str, NoneV for None.  A dict is a function from key strings to values.  *)
(***************************************************************************)
EXTENDS Integers, Sequences, FiniteSets, TLC

VARIABLES
    pc,        \* position of the running call / of main
    html,      \* the HTML string handed to the function under study
    opts,      \* the options of the call (keep_flag, keep_raw, rank_week ...)
    result,    \* what the call returned or raised
    site,      \* main: the pages the site serves, by position in the run
    run,       \* main: the local variables of main()
    csv,       \* main: the CSV file, its header line and the lines written
    db,        \* the committed rows of the rankings table
    sunk,      \* the records handed to SQLiteSink.write_many
    cell       \* the cell handed to the identifier extractor: <<>> or <<td>>

vars == <<pc, html, opts, result, site, run, csv, db, sunk, cell>>

-----------------------------------------------------------------------------
(* Python values *)

IntV(n) == [t |-> "int", i |-> n, s |-> <<>>]
StrV(x) == [t |-> "str", i |-> 0, s |-> x]
NoneV == [t |-> "none", i |-> 0, s |-> <<>>]
IsInt(v) == v.t = "int"
EmptyStr == StrV(<<>>)

Min(a, b) == IF a < b THEN a ELSE b

-----------------------------------------------------------------------------
(* Characters and the string functions the code uses *)

Digits == {"0", "1", "2", "3", "4", "5", "6", "7", "8", "9"}

IsDigit(c) == c \in Digits

DigitVal(c) ==
    CASE c = "0" -> 0 [] c = "1" -> 1 [] c = "2" -> 2 [] c = "3" -> 3
      [] c = "4" -> 4 [] c = "5" -> 5 [] c = "6" -> 6 [] c = "7" -> 7
      [] c = "8" -> 8 [] c = "9" -> 9

IsSpace(c) == c = " "

\* The value of a string of digits.
RECURSIVE DecValue(_)
DecValue(s) ==
    IF s = <<>> THEN 0
    ELSE 10 * DecValue(SubSeq(s, 1, Len(s) - 1)) + DigitVal(s[Len(s)])

AllDigits(s) == \A i \in 1..Len(s) : IsDigit(s[i])

\* str.strip() of whitespace.
RECURSIVE LStrip(_)
LStrip(s) == IF s # <<>> /\ IsSpace(Head(s)) THEN LStrip(Tail(s)) ELSE s

RECURSIVE RStrip(_)
RStrip(s) ==
    IF s # <<>> /\ IsSpace(s[Len(s)]) THEN RStrip(SubSeq(s, 1, Len(s) - 1)) ELSE s

Strip(s) == RStrip(LStrip(s))

\* re.sub(r"\s+", " ", s): every run of whitespace becomes one space.
RECURSIVE CollapseWs(_)
CollapseWs(s) ==
    IF s = <<>> THEN <<>>
    ELSE IF IsSpace(Head(s)) THEN <<" ">> \o CollapseWs(LStrip(s))
    ELSE <<Head(s)>> \o CollapseWs(Tail(s))

normalize_ws(s) == Strip(CollapseWs(s))

\* The longest prefix of digits.
RECURSIVE LeadingDigits(_)
LeadingDigits(s) ==
    IF s # <<>> /\ IsDigit(Head(s)) THEN <<Head(s)>> \o LeadingDigits(Tail(s))
    ELSE <<>>

\* re.search(r"\d+", s).group(): the first run of digits, <<>> when none.
RECURSIVE FirstDigitRun(_)
FirstDigitRun(s) ==
    IF s = <<>> THEN <<>>
    ELSE IF IsDigit(Head(s)) THEN LeadingDigits(s)
    ELSE FirstDigitRun(Tail(s))

\* int(s) succeeds: optional surrounding whitespace, an optional "-", then
\* digits (the tokens of the model hold no "+" and no "_").
IntParses(s) ==
    LET b == Strip(s)
        d == IF b # <<>> /\ Head(b) = "-" THEN Tail(b) ELSE b
    IN  d # <<>> /\ AllDigits(d)

IntOf(s) ==
    LET b == Strip(s)
    IN  IF b # <<>> /\ Head(b) = "-" THEN 0 - DecValue(Tail(b)) ELSE DecValue(b)

\* The concatenation of the tokens, as one string.
RECURSIVE Join(_)
Join(s) == IF s = <<>> THEN "" ELSE Head(s) \o Join(Tail(s))

\* str.lower() on the tokens of header labels.
LowerTok(c) ==
    CASE c = "Rang" -> "rang" [] c = "RANG" -> "rang"
      [] c = "Spieler" -> "spieler" [] c = "Spieler/in" -> "spieler/in"
      [] c = "GJahr" -> "gjahr" [] c = "Geburtsjahr" -> "geburtsjahr"
      [] c = "Punkte" -> "punkte" [] c = "Region" -> "region"
      [] c = "Verein" -> "verein" [] c = "Turniere" -> "turniere"
      [] c = "Flag" -> "flag" [] c = "Land" -> "land"
      [] OTHER -> c

RECURSIVE Lower(_)
Lower(s) == IF s = <<>> THEN <<>> ELSE <<LowerTok(Head(s))>> \o Lower(Tail(s))

\* str(i) for the column numbers a header expansion writes.
DecStr(i) ==
    CASE i = 2 -> <<"2">> [] i = 3 -> <<"3">> [] i = 4 -> <<"4">>
      [] i = 5 -> <<"5">> [] i = 6 -> <<"6">> [] i = 7 -> <<"7">>
      [] i = 8 -> <<"8">> [] i = 9 -> <<"9">>

-----------------------------------------------------------------------------
(* Python list helpers *)

\* list.index(x): the 0-based position of the first x (x is in the list).
IndexOf(s, x) == (CHOOSE i \in 1..Len(s) : s[i] = x /\ \A j \in 1..(i - 1) : s[j] # x) - 1

InList(s, x) == \E i \in 1..Len(s) : s[i] = x

\* list.insert(idx, x) with 0 <= idx.
InsertAt(s, idx, x) ==
    LET i == Min(idx, Len(s))
    IN  SubSeq(s, 1, i) \o <<x>> \o SubSeq(s, i + 1, Len(s))

\* del s[idx] with 0 <= idx < len(s).
DeleteAt(s, idx) == SubSeq(s, 1, idx) \o SubSeq(s, idx + 2, Len(s))

RECURSIVE Concat(_)
Concat(ss) == IF ss = <<>> THEN <<>> ELSE Head(ss) \o Concat(Tail(ss))

\* dict(zip(keys, values)): the last pairing of a repeated key wins.
DictZip(keys, values) ==
    LET n == Min(Len(keys), Len(values))
    IN  [k \in {keys[i] : i \in 1..n} |->
            values[CHOOSE i \in 1..n : keys[i] = k /\ \A j \in (i + 1)..n : keys[j] # k]]

\* d[k] = v
DictSet(d, k, v) == (k :> v) @@ d

-----------------------------------------------------------------------------
(* Header normalizer *)

\* th = [text, hasColspan, colspan]: the cell's text and its colspan attribute.
\* int(th.get("colspan", 1)) raises ValueError when the attribute is no number.
ColspanParses(th) == ~th.hasColspan \/ IntParses(th.colspan)

ColspanOf(th) == IF th.hasColspan THEN IntOf(th.colspan) ELSE 1

\* The labels of one header cell, each a token sequence.
_expand_header_cells(th) ==
    LET norm == normalize_ws(th.text)
        text == IF norm = <<>> THEN <<"Flag">> ELSE norm
        colspan == ColspanOf(th)
    IN  IF colspan <= 1 THEN <<text>>
        ELSE <<text>> \o [j \in 1..(colspan - 1) |-> text \o <<"#">> \o DecStr(j + 1)]

\* canon.get(h.lower(), h)
Canon(h) ==
    LET low == Join(Lower(h))
    IN  CASE low = "rang" -> "Rank"
          [] low = "rang#2" -> "RankChange"
          [] low = "spieler" -> "Player"
          [] low = "spieler/in" -> "Player"
          [] low = "gjahr" -> "BirthYear"
          [] low = "geburtsjahr" -> "BirthYear"
          [] low = "punkte" -> "Points"
          [] low = "region" -> "Region"
          [] low = "verein" -> "Club"
          [] low = "turniere" -> "Tournaments"
          [] low = "flag" -> "Flag"
          [] OTHER -> Join(h)

\* raw_headers of the header row, then header_keys before any removal.
RawHeaders(ths) == Concat([i \in 1..Len(ths) |-> _expand_header_cells(ths[i])])

CanonHeaders(ths) ==
    LET raw == RawHeaders(ths) IN [i \in 1..Len(raw) |-> Canon(raw[i])]

-----------------------------------------------------------------------------
(* Cell and identifier extractors *)

\* td = [cls, title, hasA, aText, href, text]: the class list of the cell, its
\* title attribute (<<>> when missing), whether it holds a link, the link's
\* text and href, and the cell's own text.
\* href = [present, query]: query is the list of <<name, value>> pairs.

RankClasses == {"rank_equal", "rank_up", "rank_down"}

\* The tail of s after position i.
From(s, i) == SubSeq(s, i, Len(s))

\* re.search(r"Previous rank:\s*(\d+)", title): group(1), <<>> when no match.
\* "Previous rank:" is one token of a title.
PreviousRankInTitle(title) ==
    LET hits == {i \in 1..Len(title) :
                    /\ title[i] = "Previous rank:"
                    /\ LeadingDigits(LStrip(From(title, i + 1))) # <<>>}
    IN  IF hits = {} THEN <<>>
        ELSE LET i == CHOOSE i \in hits : \A j \in hits : i <= j
             IN  LeadingDigits(LStrip(From(title, i + 1)))

_extract_cell_text(td) ==
    LET m == IF td.cls \cap RankClasses # {} THEN PreviousRankInTitle(td.title) ELSE <<>>
    IN  IF m # <<>> THEN m
        ELSE normalize_ws(IF td.hasA THEN td.aText ELSE td.text)

\* A slip: the first pair of a name taken instead of the last.
QueryGet_FirstWins(query, name) ==
    LET kept == SelectSeq(query, LAMBDA p : p[2] # <<>>)
        hits == {i \in 1..Len(kept) : kept[i][1] = name}
    IN  IF hits = {} THEN <<>>
        ELSE kept[CHOOSE i \in hits : \A j \in hits : i <= j][2]

\* dict(parse_qsl(query)).get("player"): pairs with a blank value are dropped
\* and the last pair of a name wins; <<>> when there is none.
QueryGet(query, name) ==
    LET kept == SelectSeq(query, LAMBDA p : p[2] # <<>>)
        hits == {i \in 1..Len(kept) : kept[i][1] = name}
    IN  IF hits = {} THEN <<>>
        ELSE kept[CHOOSE i \in hits : \A j \in hits : j <= i][2]

\* The identifier, or NoneV.  The argument is <<>> for None, else <<td>>.
_extract_player_id_from_td(otd) ==
    IF otd = <<>> THEN NoneV
    ELSE LET td == otd[1]
         IN  IF ~td.hasA \/ ~td.href.present THEN NoneV
             ELSE LET val == QueryGet(td.href.query, "player")
                  IN  IF val # <<>> /\ AllDigits(val) THEN IntV(DecValue(val)) ELSE NoneV

-----------------------------------------------------------------------------
(* Record normalizer and table parser *)

\* html = [hasTable, tableCls, trs, rankingdate, option, chosen, caption]: the
\* first table of the page, its class list and its rows; tr = [ths, tds].

\* re.compile(r"\bruler\b").search(c) for the class names of the model.
RulerWord(c) == c \in {"ruler", "ruler-wide"}

\* A slip: any table of the page taken for the ranking table.
FindRulerTable_AnyTable(h) == h.hasTable

\* soup.find("table", class_="ruler"), then the regular-expression lookup.
FindRulerTable(h) ==
    /\ h.hasTable
    /\ \/ "ruler" \in h.tableCls
       \/ \E c \in h.tableCls : RulerWord(c)

VirtualColumns == {"PreviousRank", "PlayerId", "RankWeek"}

NumericFields == {"Rank", "BirthYear", "Points", "Tournaments", "RankChange"}

RawName(f) == f \o "_raw"

\* drop_flag and flag_index, from header_keys before any insertion.
DropFlag(canon, keep_flag) == ~keep_flag /\ InList(canon, "Flag")

\* header_keys after "Flag" is filtered out of it.
FlagFiltered(canon, drop_flag) ==
    IF drop_flag THEN SelectSeq(canon, LAMBDA h : h # "Flag") ELSE canon

WithPreviousRank(hk) ==
    IF InList(hk, "PreviousRank") THEN hk
    ELSE IF InList(hk, "RankChange") THEN InsertAt(hk, IndexOf(hk, "RankChange") + 1, "PreviousRank")
    ELSE InsertAt(hk, 1, "PreviousRank")

WithPlayerId(hk) ==
    IF InList(hk, "PlayerId") THEN hk
    ELSE IF InList(hk, "Player") THEN InsertAt(hk, IndexOf(hk, "Player") + 1, "PlayerId")
    ELSE Append(hk, "PlayerId")

\* header_keys as the row loop sees it.
HeaderKeys(ths, keep_flag) ==
    LET canon == CanonHeaders(ths)
    IN  WithPlayerId(WithPreviousRank(FlagFiltered(canon, DropFlag(canon, keep_flag))))

\* A slip: PlayerId left among the headers that are zipped with the values.
HeadersForZip_PlayerIdZipped(hk) ==
    SelectSeq(hk, LAMBDA h : h \notin {"PreviousRank", "RankWeek"})

HeadersForZip(hk) == SelectSeq(hk, LAMBDA h : h \notin VirtualColumns)

\* The values of a row after the deletion of the Flag value.
ValuesAfterFlag(values, drop_flag, flag_index) ==
    IF drop_flag /\ flag_index < Len(values) THEN DeleteAt(values, flag_index) ELSE values

\* Padding with "" and truncation to n values.
FitTo(values, n) == [i \in 1..n |-> IF i <= Len(values) THEN values[i] ELSE <<>>]

\* pid of the row: tds[3], IndexError and None both giving "".
PlayerIdOfRow(tds) ==
    LET pid == IF Len(tds) > 3 THEN _extract_player_id_from_td(<<tds[4]>>) ELSE NoneV
    IN  IF pid # NoneV THEN pid ELSE EmptyStr

\* A slip: the minus sign stripped with the rest.
CoerceText_DigitsOnly(text) ==
    LET num == SelectSeq(text, IsDigit)
    IN  IF num # <<>> /\ IntParses(num) THEN IntV(IntOf(num)) ELSE StrV(text)

\* num = re.sub(r"[^\d\-]", "", text); int(num) when num is not empty and
\* parses, else the text itself.
CoerceText(text) ==
    LET num == SelectSeq(text, LAMBDA c : IsDigit(c) \/ c = "-")
    IN  IF num # <<>> /\ IntParses(num) THEN IntV(IntOf(num)) ELSE StrV(text)

\* The loop over the numeric fields: the raw snapshot and the coercion.
Coerced(rec, keep_raw) ==
    LET present == NumericFields \cap DOMAIN rec
        raws == IF keep_raw THEN {RawName(f) : f \in present} ELSE {}
    IN  [k \in DOMAIN rec \cup raws |->
            IF k \in raws
            THEN rec[CHOOSE f \in present : RawName(f) = k]
            ELSE IF k \in present THEN CoerceText(rec[k].s)
            ELSE rec[k]]

\* prev_rank_int, NoneV when there is none.
PrevRankInt(rec, keep_raw) ==
    IF ~keep_raw /\ "RankChange" \in DOMAIN rec /\ IsInt(rec["RankChange"])
    THEN rec["RankChange"]
    ELSE LET key == IF keep_raw THEN "RankChange_raw" ELSE "RankChange"
         IN  IF key \notin DOMAIN rec THEN NoneV
             ELSE LET m == FirstDigitRun(rec[key].s)
                  IN  IF m # <<>> THEN IntV(DecValue(m)) ELSE NoneV

\* A slip: the difference taken the other way round.
WithRankChange_Reversed(rec, keep_raw) ==
    LET prev == PrevRankInt(rec, keep_raw)
        curr == IF "Rank" \in DOMAIN rec /\ IsInt(rec["Rank"]) THEN rec["Rank"] ELSE NoneV
    IN  IF prev # NoneV /\ curr # NoneV
        THEN DictSet(DictSet(rec, "PreviousRank", prev), "RankChange", IntV(curr.i - prev.i))
        ELSE DictSet(DictSet(rec, "PreviousRank", EmptyStr), "RankChange", IntV(0))

\* rec["PreviousRank"] and rec["RankChange"].
WithRankChange(rec, keep_raw) ==
    LET prev == PrevRankInt(rec, keep_raw)
        curr == IF "Rank" \in DOMAIN rec /\ IsInt(rec["Rank"]) THEN rec["Rank"] ELSE NoneV
    IN  IF prev # NoneV /\ curr # NoneV
        THEN DictSet(DictSet(rec, "PreviousRank", prev), "RankChange", IntV(prev.i - curr.i))
        ELSE DictSet(DictSet(rec, "PreviousRank", EmptyStr), "RankChange", IntV(0))

\* The record of one data row.
ParseRow(tr, hk, drop_flag, flag_index, rank_week, keep_raw) ==
    LET values == [i \in 1..Len(tr.tds) |-> _extract_cell_text(tr.tds[i])]
        hz == HeadersForZip(hk)
        fitted == FitTo(ValuesAfterFlag(values, drop_flag, flag_index), Len(hz))
        rec0 == DictZip(hz, [i \in 1..Len(hz) |-> StrV(fitted[i])])
        rec1 == DictSet(rec0, "PlayerId", PlayerIdOfRow(tr.tds))
        rec2 == WithRankChange(Coerced(rec1, keep_raw), keep_raw)
    IN  DictSet(rec2, "RankWeek", StrV(rank_week))

\* The rows the loop does not skip.
IsDataRow(tr) ==
    /\ tr.ths = <<>>
    /\ \A i \in 1..Len(tr.tds) : "noruler" \notin tr.tds[i].cls
    /\ tr.tds # <<>>

Raised(what) == [status |-> what, rows |-> <<>>, header_keys |-> <<>>]

\* parse_ruler_table: (rows, header_keys), or the exception it raises.
parse_ruler_table(h, keep_flag, rank_week, keep_raw) ==
    IF ~FindRulerTable(h) THEN Raised("ValueError: table not found")
    ELSE IF h.trs = <<>> THEN Raised("AttributeError")
    ELSE LET ths == h.trs[1].ths
         IN  IF \E i \in 1..Len(ths) : ~ColspanParses(ths[i]) THEN Raised("ValueError: int()")
             ELSE LET canon == CanonHeaders(ths)
                      drop_flag == DropFlag(canon, keep_flag)
                      flag_index == IF drop_flag THEN IndexOf(canon, "Flag") ELSE 0
                      hk == HeaderKeys(ths, keep_flag)
                      data == SelectSeq(h.trs, IsDataRow)
                  IN  [status |-> "ok",
                       rows |-> [i \in 1..Len(data) |->
                                    ParseRow(data[i], hk, drop_flag, flag_index, rank_week, keep_raw)],
                       header_keys |-> IF InList(hk, "RankWeek") THEN hk
                                       ELSE Append(hk, "RankWeek")]

-----------------------------------------------------------------------------
(* The pages and options the calls are checked on *)

MaxTextLen == 3    \* longest text of the cell that ranges over every text
MaxRows == 2       \* most rows below the header row of a page

\* Every text of at most n tokens over the characters the coercion and the
\* digit search tell apart: two digits, the minus sign, a separator.
WildTokens == {"1", "3", "-", "."}

Texts(n) == UNION {[1..k -> WildTokens] : k \in 0..n}

NoHref == [present |-> FALSE, query |-> <<>>]
Href(query) == [present |-> TRUE, query |-> query]

Td(text) ==
    [cls |-> {}, title |-> <<>>, hasA |-> FALSE, aText |-> <<>>, href |-> NoHref, text |-> text]
RankTd(cls, title, text) ==
    [cls |-> {cls}, title |-> title, hasA |-> FALSE, aText |-> <<>>, href |-> NoHref, text |-> text]
LinkTd(aText, href) ==
    [cls |-> {}, title |-> <<>>, hasA |-> TRUE, aText |-> aText, href |-> href, text |-> <<>>]

Th(text) == [text |-> text, hasColspan |-> FALSE, colspan |-> <<>>]
ThSpan(text, colspan) == [text |-> text, hasColspan |-> TRUE, colspan |-> colspan]

DataTr(tds) == [ths |-> <<>>, tds |-> tds]
HeaderTr(ths) == [ths |-> ths, tds |-> <<>>]

JaneTd == LinkTd(<<"Jane", " ", "Doe">>, Href(<< <<"player", <<"4", "2">> >> >>))
MaxTd == LinkTd(<<"Max">>, Href(<< <<"id", <<"1">> >>, <<"player", <<"7">> >> >>))

\* The header row Rang (colspan 2), Spieler, GJahr, Punkte and its data row.
PlainHeader == <<ThSpan(<<"Rang">>, <<"2">>), Th(<<"Spieler">>), Th(<<"GJahr">>), Th(<<"Punkte">>)>>
PlainRow ==
    DataTr(<<Td(<<"1">>), RankTd("rank_up", <<"Previous rank:", " ", "3">>, <<"^">>),
             JaneTd, Td(<<"1", "9", "9", "0">>), Td(<<"5", "0", "0">>)>>)

\* The layout of the site: a blank column stands before the player's.
SiteHeader ==
    <<ThSpan(<<"Rang">>, <<"2">>), Th(<<>>), Th(<<"Spieler">>), Th(<<"GJahr">>),
      Th(<<"Punkte">>), Th(<<"Verein">>)>>
SiteRow ==
    DataTr(<<Td(<<"2">>), RankTd("rank_down", <<"Previous rank:", "1">>, <<"v">>),
             Td(<<"f">>), MaxTd, Td(<<"1", "9", "8", "5">>), Td(<<"1", ".", "2", "3", "4">>),
             Td(<<" ", "TV", " ", " ", "Ulm", " ">>)>>)

HeaderLayouts ==
    { PlainHeader,
      SiteHeader,
      \* two blank columns
      <<ThSpan(<<"Rang">>, <<"2">>), Th(<<>>), Th(<<"Spieler">>), Th(<<" ">>), Th(<<"Punkte">>)>>,
      \* no RankChange column
      <<Th(<<"Rang">>), Th(<<"Spieler">>), Th(<<"Punkte">>)>>,
      \* no Player column, no Rank column
      <<Th(<<"Verein">>), Th(<<"Turniere">>)>>,
      \* other spellings, an unknown label, a span of three
      <<ThSpan(<<"RANG">>, <<" ", "2">>), Th(<<"Land">>), Th(<<"Spieler/in">>), Th(<<"Geburtsjahr">>)>>,
      <<ThSpan(<<"Rang">>, <<"3">>), Th(<<"Region">>), Th(<<"Spieler">>)>>,
      \* a label twice, a label that names a virtual column
      <<Th(<<"Rang">>), Th(<<"Rang">>), Th(<<"PlayerId">>), Th(<<"Spieler">>)>>,
      \* colspan values: "0", "-1", not a number, empty
      <<ThSpan(<<"Rang">>, <<"0">>), ThSpan(<<"Spieler">>, <<"-", "1">>)>>,
      <<ThSpan(<<"Rang">>, <<"x">>), Th(<<"Spieler">>)>>,
      <<ThSpan(<<"Rang">>, <<>>), Th(<<"Spieler">>)>>,
      \* a first row without any header cell
      <<>> }

TameRows ==
    { PlainRow,
      SiteRow,
      \* a new entry: the rank cell has no title, the player no link
      DataTr(<<Td(<<"3">>), RankTd("rank_equal", <<>>, <<"=">>), Td(<<"Bob">>),
               LinkTd(<<"Eve">>, Href(<< <<"player", <<"a", "b", "c">> >> >>))>>),
      \* fewer cells than any header
      DataTr(<<Td(<<"4">>)>>),
      \* the pager row, a repeated header row
      DataTr(<<[Td(<<"1">>) EXCEPT !.cls = {"noruler"}]>>),
      HeaderTr(<<Th(<<"Rang">>)>>) }

RECURSIVE SeqsUpTo(_, _)
SeqsUpTo(S, n) ==
    IF n = 0 THEN {<<>>}
    ELSE LET shorter == SeqsUpTo(S, n - 1)
         IN  shorter \cup {Append(q, x) : q \in {r \in shorter : Len(r) = n - 1}, x \in S}

\* A page: its first table and the elements the week and the caption are read
\* from, each <<>> when the page has none, else <<text>>.
Page(hasTable, cls, trs, rankingdate, option, chosen, caption) ==
    [hasTable |-> hasTable, tableCls |-> cls, trs |-> trs, rankingdate |-> rankingdate,
     option |-> option, chosen |-> chosen, caption |-> caption]

Table(cls, trs) == Page(TRUE, cls, trs, <<>>, <<>>, <<>>, <<>>)
NoTable == Page(FALSE, {}, <<>>, <<>>, <<>>, <<>>, <<>>)

\* Every layout over every short list of the rows above.
TamePages ==
    {Table({"ruler"}, <<HeaderTr(layout)>> \o rows) :
        layout \in HeaderLayouts, rows \in SeqsUpTo(TameRows, MaxRows)}

\* One cell of a row ranging over every text: the Rank cell, the RankChange
\* cell or the last cell.
WildRows ==
    {DataTr([base.tds EXCEPT ![pos] = Td(w)]) :
        base \in {PlainRow, SiteRow}, pos \in {1, 2, 5}, w \in Texts(MaxTextLen)}

WildPages ==
    {Table({"ruler"}, <<HeaderTr(layout), row>>) :
        layout \in {PlainHeader, SiteHeader}, row \in WildRows}

\* The table lookup: no table, other class lists, a table without rows, a
\* table whose first row is a data row.
LookupPages ==
    {NoTable, Table({"ruler"}, <<>>), Table({"ruler"}, <<PlainRow, SiteRow>>)}
    \cup {Table(cls, <<HeaderTr(PlainHeader), PlainRow>>) :
            cls \in {{}, {"list"}, {"list", "ruler"}, {"ruler-wide"}, {"rulers"}}}

ParsePages == TamePages \cup WildPages \cup LookupPages

Week == <<"2", "0", "2", "4", "-", "0", "5">>

ParseOpts == [keep_flag : BOOLEAN, keep_raw : BOOLEAN, rank_week : {Week}]

-----------------------------------------------------------------------------
(* One call of parse_ruler_table *)

NoResult == Raised("none")

\* The variables the call does not use.
Idle == site = <<>> /\ run = <<>> /\ csv = <<>> /\ db = <<>> /\ sunk = <<>> /\ cell = <<>>

ParseInit ==
    /\ pc = "call"
    /\ html \in ParsePages
    /\ opts \in ParseOpts
    /\ result = NoResult
    /\ Idle

ParseResult == parse_ruler_table(html, opts.keep_flag, opts.rank_week, opts.keep_raw)

ParseReturns ==
    /\ pc = "call"
    /\ ParseResult.status = "ok"
    /\ result' = ParseResult
    /\ pc' = "returned"
    /\ UNCHANGED <<html, opts, site, run, csv, db, sunk, cell>>

ParseRaises ==
    /\ pc = "call"
    /\ ParseResult.status # "ok"
    /\ result' = ParseResult
    /\ pc' = "raised"
    /\ UNCHANGED <<html, opts, site, run, csv, db, sunk, cell>>

ParseNext == ParseReturns \/ ParseRaises

SpecParse == ParseInit /\ [][ParseNext]_vars

-----------------------------------------------------------------------------
(* What the claims about one call speak of *)

Returned == pc = "returned"

\* The data rows of the page, in the order of result.rows.
DataRows == SelectSeq(html.trs, IsDataRow)

RowIds == 1..Len(result.rows)

\* header_keys before any removal or insertion: one name per column.
ColumnNames == CanonHeaders(html.trs[1].ths)

\* The non-virtual headers of the returned schema.
ZipHeaders == SelectSeq(result.header_keys, LAMBDA h : h \notin VirtualColumns)

\* Whether the Flag value of a row of n cells is removed, and its 0-based index.
FlagRemoved(n) ==
    /\ DropFlag(ColumnNames, opts.keep_flag)
    /\ IndexOf(ColumnNames, "Flag") < n

\* The extracted texts of row i after the removal of the Flag value.
ZipValues(i) ==
    LET tds == DataRows[i].tds
        values == [j \in 1..Len(tds) |-> _extract_cell_text(tds[j])]
    IN  IF FlagRemoved(Len(tds)) THEN DeleteAt(values, IndexOf(ColumnNames, "Flag")) ELSE values

\* The j-th of the values zv, "" beyond their end.
ZipValue(zv, j) == IF j <= Len(zv) THEN zv[j] ELSE <<>>

\* Whether the j-th of the headers zh is the last of its name.
LastOfName(zh, j) == \A k \in (j + 1)..Len(zh) : zh[k] # zh[j]

\* The text the field named f held before the coercion, in a row whose
\* values are zv.
FieldText(zh, zv, f) ==
    ZipValue(zv, CHOOSE j \in 1..Len(zh) : zh[j] = f /\ LastOfName(zh, j))

HasDigit(text) == \E k \in 1..Len(text) : IsDigit(text[k])

(* C1: for every record returned by parse_ruler_table, with keep_raw false or
   true: PreviousRank is an integer exactly when the RankChange cell of the
   row yields a previous-rank number (its text holds a digit) and the coerced
   Rank is an integer, and then RankChange = PreviousRank - Rank; a cell text
   of digits only gives that number as PreviousRank; in every other case,
   a header without a RankChange column included, PreviousRank is the empty
   string and RankChange is 0. *)
C1_RankChangeDerived ==
    Returned =>
        LET zh == ZipHeaders
        IN  \A i \in RowIds :
                LET r == result.rows[i]
                    rankInt == InList(zh, "Rank") /\ IsInt(r["Rank"])
                    text == IF InList(zh, "RankChange")
                            THEN FieldText(zh, ZipValues(i), "RankChange") ELSE <<>>
                    known == HasDigit(text) /\ rankInt
                IN  /\ known =>
                          /\ IsInt(r["PreviousRank"])
                          /\ r["RankChange"] = IntV(r["PreviousRank"].i - r["Rank"].i)
                    /\ (known /\ AllDigits(text)) =>
                          r["PreviousRank"] = IntV(DecValue(text))
                    /\ ~known =>
                          /\ r["PreviousRank"] = EmptyStr
                          /\ r["RankChange"] = IntV(0)

C1_Witness ==
    /\ Returned
    /\ opts.keep_raw
    /\ \E i \in RowIds :
          /\ IsInt(result.rows[i]["PreviousRank"])
          /\ result.rows[i]["RankChange"].i > 0

\* The page of the end-to-end example.
ExamplePage == Table({"ruler"}, <<HeaderTr(PlainHeader), PlainRow>>)

\* The 1-based position, among the cells of a row of n cells, of the cell
\* whose value is zipped with the header Player (0 when the row has none).
PlayerCellIndex(zh, n) ==
    LET j == CHOOSE j \in 1..Len(zh) : zh[j] = "Player" /\ LastOfName(zh, j)
        c == IF FlagRemoved(n) /\ j > IndexOf(ColumnNames, "Flag") THEN j + 1 ELSE j
    IN  IF c <= n THEN c ELSE 0

(* C2: the page with header Rang (colspan 2), Spieler, GJahr, Punkte and the
   data row "1", rank_up "Previous rank: 3", the link 'p?player=42' "Jane
   Doe", "1990", "500" yields exactly one record, with Rank=1,
   PreviousRank=3, RankChange=2, Player="Jane Doe", PlayerId=42,
   BirthYear=1990, Points=500; and the PlayerId of every record is extracted
   from the cell that supplies the record's Player value. *)
C2_PlayerIdFromPlayerCell ==
    Returned =>
        /\ html = ExamplePage =>
              /\ Len(result.rows) = 1
              /\ LET r == result.rows[1]
                 IN  /\ r["Rank"] = IntV(1)
                     /\ r["PreviousRank"] = IntV(3)
                     /\ r["RankChange"] = IntV(2)
                     /\ r["Player"] = StrV(<<"Jane", " ", "Doe">>)
                     /\ r["PlayerId"] = IntV(42)
                     /\ r["BirthYear"] = IntV(1990)
                     /\ r["Points"] = IntV(500)
        /\ LET zh == ZipHeaders
           IN  InList(zh, "Player") =>
                  \A i \in RowIds :
                      LET tds == DataRows[i].tds
                          c == PlayerCellIndex(zh, Len(tds))
                          pid == _extract_player_id_from_td(IF c = 0 THEN <<>> ELSE <<tds[c]>>)
                      IN  result.rows[i]["PlayerId"] = IF pid = NoneV THEN EmptyStr ELSE pid

\* The coercion as the sentence words it: digits and a minus sign that leads
\* what is kept survive, and the rest is parsed.
LeadingMinusCoercion(text) ==
    LET digits == SelectSeq(text, IsDigit)
        kept == {k \in 1..Len(text) : IsDigit(text[k]) \/ text[k] = "-"}
        leads == kept # {} /\ text[CHOOSE k \in kept : \A m \in kept : k <= m] = "-"
    IN  IF digits = <<>> THEN StrV(text)
        ELSE IntV(IF leads THEN 0 - DecValue(digits) ELSE DecValue(digits))

\* The coercion with every minus sign kept: an integer comes out when the
\* text holds a digit and either no minus sign or a single one before every
\* digit.
EveryMinusCoercion(text) ==
    LET digits == SelectSeq(text, IsDigit)
        minus == {k \in 1..Len(text) : text[k] = "-"}
        parses == /\ digits # <<>>
                  /\ Cardinality(minus) <= 1
                  /\ \A m \in minus : \A k \in 1..Len(text) : IsDigit(text[k]) => m < k
    IN  IF ~parses THEN StrV(text)
        ELSE IntV(IF minus # {} THEN 0 - DecValue(digits) ELSE DecValue(digits))

CoercedFields == {"Rank", "BirthYear", "Points", "Tournaments"}

(* C4, as stated: each of Rank, BirthYear, Points, Tournaments of a record is
   its text with every character but digits and a leading minus sign
   stripped, parsed as an integer; the text itself when nothing parseable
   remains. *)
C4_LeadingMinusOnly ==
    Returned =>
        LET zh == ZipHeaders
        IN  \A i \in RowIds : \A f \in CoercedFields :
                InList(zh, f) =>
                    result.rows[i][f] = LeadingMinusCoercion(FieldText(zh, ZipValues(i), f))

(* C4, amended: each of Rank, BirthYear, Points, Tournaments of a record is
   its text with every character but digits and minus signs stripped, parsed
   as an integer; the field keeps its text when the remainder is empty or is
   not an optional single minus sign followed by digits. *)
C4_EveryMinusKept ==
    Returned =>
        LET zh == ZipHeaders
        IN  \A i \in RowIds : \A f \in CoercedFields :
                InList(zh, f) =>
                    result.rows[i][f] = EveryMinusCoercion(FieldText(zh, ZipValues(i), f))

C4_Witness ==
    /\ Returned
    /\ InList(ZipHeaders, "Points")
    /\ \E i \in RowIds :
          /\ FieldText(ZipHeaders, ZipValues(i), "Points") = <<"1", ".", "2", "3", "4">>
          /\ result.rows[i]["Points"] = IntV(1234)

\* What the record holds for a field whose text was this one.
FieldValue(f, text) == IF f \in NumericFields THEN CoerceText(text) ELSE StrV(text)

(* C5: with keep_flag false and a header with blank cells, whatever their
   number, no record has a Flag field, the schema has no Flag entry, and
   every other header is paired with the value of its own column (one value
   removed at the Flag column's original index); with keep_flag true every
   record keeps the Flag field. *)
C5_FlagAllOrNothing ==
    Returned =>
        LET cn == ColumnNames
            own == {c \in 1..Len(cn) :
                        /\ cn[c] \notin VirtualColumns \cup {"Flag", "RankChange"}
                        /\ \A d \in 1..Len(cn) : cn[d] = cn[c] => d = c}
        IN  InList(cn, "Flag") =>
                IF opts.keep_flag
                THEN \A i \in RowIds : "Flag" \in DOMAIN result.rows[i]
                ELSE /\ ~InList(result.header_keys, "Flag")
                     /\ \A i \in RowIds :
                           LET tds == DataRows[i].tds
                           IN  /\ "Flag" \notin DOMAIN result.rows[i]
                               /\ \A c \in own :
                                     result.rows[i][cn[c]] =
                                        FieldValue(cn[c], IF c <= Len(tds)
                                                          THEN _extract_cell_text(tds[c])
                                                          ELSE <<>>)

(* C6: whenever the page contains a ruler table the call returns without
   raising, whatever the header cells, the colspan values, the number of
   rows and the data cells are: table-not-found is the only failure. *)
C6_OnlyTableNotFoundRaises ==
    (html.hasTable /\ "ruler" \in html.tableCls) => pc # "raised"

(* C7, as stated: when the page contains no table carrying the ruler class the
   call raises the table-not-found error and returns no result. *)
C7_NoRulerClassRaises ==
    (pc # "call" /\ (~html.hasTable \/ "ruler" \notin html.tableCls)) =>
        /\ pc = "raised"
        /\ result.status = "ValueError: table not found"

(* C7, amended: when the page contains no table whose class attribute holds
   ruler as a whole word (the class ruler itself or one such as ruler-wide,
   which the second lookup accepts), the call raises the table-not-found
   error and returns no result. *)
C7_NoRulerWordRaises ==
    (pc # "call" /\ (~html.hasTable \/ html.tableCls \cap {"ruler", "ruler-wide"} = {})) =>
        /\ pc = "raised"
        /\ result.status = "ValueError: table not found"
        /\ result.rows = <<>>

C7_Witness ==
    /\ pc = "raised"
    /\ html.hasTable
    /\ html.tableCls = {"list"}
    /\ html.trs # <<>>

\* The keys of a record besides the zipped headers.
ComputedKeys(zh) ==
    VirtualColumns \cup {"RankChange"}
        \cup (IF opts.keep_raw
              THEN {RawName(f) : f \in NumericFields \cap {zh[j] : j \in 1..Len(zh)}}
              ELSE {})

(* C8, as stated: after the Flag removal the i-th non-virtual header of the
   schema is paired with the i-th extracted value of the row ("" beyond the
   row's end, values beyond the headers dropped), for every i, and a row of
   the wrong length raises nothing. *)
C8_EveryHeaderPaired ==
    /\ Returned =>
          LET zh == ZipHeaders
          IN  \A i \in RowIds :
                  LET zv == ZipValues(i)
                  IN  \A j \in 1..Len(zh) :
                          zh[j] # "RankChange" =>
                              result.rows[i][zh[j]] = FieldValue(zh[j], ZipValue(zv, j))
    /\ pc = "raised" =>
          \/ ~FindRulerTable(html)
          \/ html.trs = <<>>
          \/ \E k \in 1..Len(html.trs[1].ths) : ~ColspanParses(html.trs[1].ths[k])

(* C8, amended: the same pairing, where a header name that occurs more than
   once in the schema keeps the value paired with its last occurrence; the
   record has no key besides the zipped headers and the computed ones. *)
C8_LastOfNamePaired ==
    /\ Returned =>
          LET zh == ZipHeaders
          IN  \A i \in RowIds :
                  LET zv == ZipValues(i)
                  IN  /\ \A j \in 1..Len(zh) :
                            (zh[j] # "RankChange" /\ LastOfName(zh, j)) =>
                                result.rows[i][zh[j]] = FieldValue(zh[j], ZipValue(zv, j))
                      /\ DOMAIN result.rows[i] = {zh[j] : j \in 1..Len(zh)} \cup ComputedKeys(zh)
    /\ pc = "raised" =>
          \/ ~FindRulerTable(html)
          \/ html.trs = <<>>
          \/ \E k \in 1..Len(html.trs[1].ths) : ~ColspanParses(html.trs[1].ths[k])

\* A short row is padded and a long one truncated.
C8_Witness ==
    /\ Returned
    /\ \E i \in RowIds :
          /\ Len(ZipValues(i)) < Len(ZipHeaders)
          /\ result.rows[i][ZipHeaders[Len(ZipHeaders)]] = EmptyStr
    /\ \E i \in RowIds : Len(ZipValues(i)) > Len(ZipHeaders)

-----------------------------------------------------------------------------
(* One call of _extract_player_id_from_td *)

MaxParams == 2     \* most parameters of the query of a link

ParamNames == {"player", "id", "Player"}

ParamValues == {<<>>, <<"7">>, <<"4", "2">>, <<"a", "b", "c">>, <<"7", "a">>, <<"-", "7">>}

Queries == SeqsUpTo({<<n, v>> : n \in ParamNames, v \in ParamValues}, MaxParams)

\* href "player.aspx?id=1&player=3423713"
LongIdQuery == << <<"id", <<"1">> >>, <<"player", <<"3", "4", "2", "3", "7", "1", "3">> >> >>

IdCells ==
    {<<>>, <<Td(<<"Bob">>)>>, <<LinkTd(<<"Bob">>, NoHref)>>, <<LinkTd(<<"Bob">>, Href(LongIdQuery))>>}
    \cup {<<LinkTd(<<"Bob">>, Href(q))>> : q \in Queries}

IdInit ==
    /\ pc = "call"
    /\ cell \in IdCells
    /\ result = NoneV
    /\ html = NoTable /\ opts = <<>>
    /\ site = <<>> /\ run = <<>> /\ csv = <<>> /\ db = <<>> /\ sunk = <<>>

ExtractId ==
    /\ pc = "call"
    /\ result' = _extract_player_id_from_td(cell)
    /\ pc' = "returned"
    /\ UNCHANGED <<html, opts, site, run, csv, db, sunk, cell>>

SpecId == IdInit /\ [][ExtractId]_vars

\* The value of the parameter named player that the query yields: that of
\* the last pair of that name whose value is not blank.
PlayerValues(query) ==
    {query[i][2] : i \in {i \in 1..Len(query) :
        /\ query[i][1] = "player"
        /\ query[i][2] # <<>>
        /\ \A j \in (i + 1)..Len(query) : query[j][1] = "player" => query[j][2] = <<>>}}

(* C3: _extract_player_id_from_td returns the integer value of the href's
   query parameter named player exactly when the cell has a link with an href
   whose player value consists only of digits ("player.aspx?id=1&
   player=3423713" gives 3423713); for a missing cell, link, href or
   parameter and for a value that is not all digits ("player=abc") it returns
   no identifier. *)
C3_IdentifierExtraction ==
    Returned =>
        LET linked == cell # <<>> /\ cell[1].hasA /\ cell[1].href.present
            values == IF linked THEN PlayerValues(cell[1].href.query) ELSE {}
            digits == {v \in values : \A k \in 1..Len(v) : v[k] \in Digits}
        IN  /\ \A v \in digits : result = IntV(DecValue(v))
            /\ digits = {} => result = NoneV
            /\ (linked /\ cell[1].href.query = LongIdQuery) => result = IntV(3423713)

C3_Witness ==
    /\ Returned
    /\ IsInt(result)
    /\ Len(cell[1].href.query) = 2
    /\ cell[1].href.query[2][1] # "player"

-----------------------------------------------------------------------------
(* The week and the caption of a page *)

\* str.strip("()")
RECURSIVE StripParens(_)
StripParens(s) ==
    IF s # <<>> /\ Head(s) \in {"(", ")"} THEN StripParens(Tail(s))
    ELSE IF s # <<>> /\ s[Len(s)] \in {"(", ")"} THEN StripParens(SubSeq(s, 1, Len(s) - 1))
    ELSE s

\* re.match(r"(\d{1,2})-(\d{4})$", raw): the length k of the week number,
\* 0 when raw does not match.
WeekDigits(raw) ==
    IF \E k \in {1, 2} :
          /\ Len(raw) = k + 5
          /\ AllDigits(SubSeq(raw, 1, k))
          /\ raw[k + 1] = "-"
          /\ AllDigits(SubSeq(raw, k + 2, k + 5))
    THEN Len(raw) - 5
    ELSE 0

\* f"{yyyy}-{ww}" with ww = m.group(1).zfill(2)
WeekString(raw) ==
    LET k == WeekDigits(raw)
        ww == IF k = 1 THEN <<"0">> \o SubSeq(raw, 1, 1) ELSE SubSeq(raw, 1, 2)
    IN  SubSeq(raw, k + 2, k + 5) \o <<"-">> \o ww

\* parse_rank_week: <<>> for None, else <<"YYYY-WW">>.
parse_rank_week(h) ==
    IF h.rankingdate # <<>> /\ WeekDigits(StripParens(Strip(h.rankingdate[1]))) > 0
        THEN <<WeekString(StripParens(Strip(h.rankingdate[1])))>>
    ELSE IF h.option # <<>> /\ WeekDigits(Strip(h.option[1])) > 0
        THEN <<WeekString(Strip(h.option[1]))>>
    ELSE IF h.chosen # <<>> /\ WeekDigits(Strip(h.chosen[1])) > 0
        THEN <<WeekString(Strip(h.chosen[1]))>>
    ELSE <<>>

\* extract_caption: <<>> for None, else <<text>>.
extract_caption(h) ==
    IF ~FindRulerTable(h) THEN <<>>
    ELSE IF h.caption = <<>> THEN <<>>
    ELSE <<normalize_ws(h.caption[1])>>

-----------------------------------------------------------------------------
(* The CSV sink *)

FIXED_RAW_FIELDS ==
    <<"RankChange_raw", "Rank_raw", "BirthYear_raw", "Points_raw", "Tournaments_raw">>

\* A slip: every raw name appended, present already or not.
compute_fieldnames_EveryRaw(header_keys, keep_raw) ==
    SelectSeq(header_keys, LAMBDA k : k # "RankWeek")
        \o (IF keep_raw THEN FIXED_RAW_FIELDS ELSE <<>>)
        \o (IF InList(header_keys, "RankWeek") THEN <<"RankWeek">> ELSE <<>>)

compute_fieldnames(header_keys, keep_raw) ==
    LET base_headers == SelectSeq(header_keys, LAMBDA k : k # "RankWeek")
        raws == IF keep_raw
                THEN SelectSeq(FIXED_RAW_FIELDS, LAMBDA k : ~InList(base_headers, k))
                ELSE <<>>
    IN  base_headers \o raws
            \o (IF InList(header_keys, "RankWeek") THEN <<"RankWeek">> ELSE <<>>)

\* str(i)
RECURSIVE IntStr(_)
IntStr(i) ==
    IF i < 0 THEN <<"-">> \o IntStr(0 - i)
    ELSE IF i < 10 THEN <<CHOOSE c \in Digits : DigitVal(c) = i>>
    ELSE IntStr(i \div 10) \o IntStr(i % 10)

\* The text csv.DictWriter writes for a value: "" for None, str(v) otherwise.
CsvText(v) == IF v.t = "int" THEN IntStr(v.i) ELSE v.s

\* DictWriter.writerow: the values in the order of fieldnames, "" for a
\* field the record lacks.
CsvLine(r, fieldnames) ==
    [i \in 1..Len(fieldnames) |->
        IF fieldnames[i] \in DOMAIN r THEN CsvText(r[fieldnames[i]]) ELSE <<>>]

\* writerow raises ValueError for a record with a key outside fieldnames.
CsvAccepts(r, fieldnames) == \A k \in DOMAIN r : InList(fieldnames, k)

NoCsv == [open |-> FALSE, header |-> <<>>, lines |-> <<>>]

\* CSVWriterSink.__enter__: the file is created and the header line written.
CsvOpen(fieldnames) == [open |-> TRUE, header |-> fieldnames, lines |-> <<>>]

\* CSVWriterSink.write_many: the rows before the first one refused are
\* written.
CsvWriteMany(file, rows, fieldnames) ==
    LET bad == {i \in 1..Len(rows) : ~CsvAccepts(rows[i], fieldnames)}
        n == IF bad = {} THEN Len(rows)
             ELSE (CHOOSE i \in bad : \A j \in bad : i <= j) - 1
    IN  [file |-> [file EXCEPT !.lines = @ \o [i \in 1..n |-> CsvLine(rows[i], fieldnames)]],
         ok |-> bad = {}]

-----------------------------------------------------------------------------
(* The SQLite sink *)

ALLOWED_KEYS ==
    {"Rank", "RankChange", "PreviousRank", "Player", "PlayerId",
     "BirthYear", "Points", "Region", "Club", "Tournaments", "RankWeek", "Caption"}

\* PRIMARY KEY (RankWeek, Caption, PlayerId)
KeyColumns == {"RankWeek", "Caption", "PlayerId"}

\* The columns the DDL declares TEXT; the others are INTEGER.
TextColumns == {"Player", "Region", "Club", "RankWeek", "Caption"}

\* The value a column stores: text that reads as an integer becomes an
\* integer in an INTEGER column, an integer becomes text in a TEXT column.
Stored(c, v) ==
    IF c \in TextColumns
    THEN IF v.t = "int" THEN StrV(IntStr(v.i)) ELSE v
    ELSE IF v.t = "str" /\ IntParses(v.s) THEN IntV(IntOf(v.s)) ELSE v

_adapt_row(row, caption, rank_week) ==
    [k \in (ALLOWED_KEYS \cap DOMAIN row) \cup {"Caption", "RankWeek"} |->
        IF k = "Caption" THEN StrV(caption)
        ELSE IF k = "RankWeek" THEN StrV(rank_week)
        ELSE row[k]]

\* Every named parameter of UPSERT has a value in the adapted row; sqlite3
\* raises ProgrammingError otherwise.
Binds(adapted) == ALLOWED_KEYS \subseteq DOMAIN adapted

\* One execution of UPSERT.
Upsert(table, adapted) ==
    LET new == [c \in ALLOWED_KEYS |-> Stored(c, adapted[c])]
        hit == {x \in table : \A k \in KeyColumns : x[k] = new[k]}
    IN  IF hit = {} THEN table \cup {new}
        ELSE (table \ hit)
                \cup {[c \in ALLOWED_KEYS |-> IF c \in KeyColumns THEN x[c] ELSE new[c]] : x \in hit}

RECURSIVE UpsertAll(_, _)
UpsertAll(table, adapted) ==
    IF adapted = <<>> THEN table
    ELSE UpsertAll(Upsert(table, Head(adapted)), Tail(adapted))

\* SQLiteSink.write_many, and __exit__ when it raises: the rows of the batch
\* are committed together, or none of them is.
write_many(table, rows, caption, rank_week) ==
    LET adapted == [i \in 1..Len(rows) |-> _adapt_row(rows[i], caption, rank_week)]
    IN  IF rows = <<>> THEN [table |-> table, ok |-> TRUE]
        ELSE IF \E i \in 1..Len(rows) : ~Binds(adapted[i]) THEN [table |-> table, ok |-> FALSE]
        ELSE [table |-> UpsertAll(table, adapted), ok |-> TRUE]

-----------------------------------------------------------------------------
(* main *)

\* isinstance(r.get("Rank"), int) and r["Rank"] <= max_rank
WithinRank(r, max_rank) ==
    "Rank" \in DOMAIN r /\ IsInt(r["Rank"]) /\ r["Rank"].i <= max_rank

\* The loop of the later pages: the rows before the first one beyond the
\* cutoff.
RECURSIVE RankPrefix(_, _)
RankPrefix(rows, max_rank) ==
    IF rows # <<>> /\ WithinRank(Head(rows), max_rank)
    THEN <<Head(rows)>> \o RankPrefix(Tail(rows), max_rank)
    ELSE <<>>

\* sink_write on the sinks st = [csv, db, sunk, ok]; ok becomes FALSE when a
\* sink raises.
sink_write(st, page_rows, fieldnames, to_sqlite, caption_text, rank_week) ==
    IF page_rows = <<>> THEN st
    ELSE LET c == CsvWriteMany(st.csv, page_rows, fieldnames)
         IN  IF ~c.ok THEN [st EXCEPT !.csv = c.file, !.ok = FALSE]
             ELSE IF ~to_sqlite THEN [st EXCEPT !.csv = c.file]
             ELSE LET q == write_many(st.db, page_rows, caption_text, rank_week)
                  IN  [csv |-> c.file, db |-> q.table, sunk |-> st.sunk \o page_rows, ok |-> q.ok]

\* use_max_pages and pages_done >= args.max_pages
PageLimitReached(o, pages_done) ==
    o.max_pages # <<>> /\ o.max_rank = <<>> /\ pages_done >= o.max_pages[1]

\* A slip: the week of a later page read from that page.
LaterPage_OwnWeek(h, o, rank_week) ==
    LET own == parse_rank_week(h)
    IN  parse_ruler_table(h, o.keep_flag,
                          IF own = <<>> THEN <<"UnknownWeek">> ELSE own[1], o.keep_raw)

\* The parse of a later page.
LaterPage(h, o, rank_week) == parse_ruler_table(h, o.keep_flag, rank_week, o.keep_raw)

-----------------------------------------------------------------------------
(* The sites and arguments a run of main is checked on *)

MaxSitePages == 2  \* most pages of a site before its empty last page

\* The header row of the site's ranking pages.
FullHeader ==
    <<ThSpan(<<"Rang">>, <<"2">>), Th(<<>>), Th(<<"Spieler">>), Th(<<"GJahr">>),
      Th(<<"Punkte">>), Th(<<"Region">>), Th(<<"Verein">>), Th(<<"Turniere">>)>>

RankedRow(rank, pid) ==
    DataTr(<<Td(rank), RankTd("rank_up", <<"Previous rank:", " ", "3">>, <<"^">>), Td(<<>>),
             LinkTd(<<"Max">>, Href(<< <<"player", pid>> >>)), Td(<<"1", "9", "9", "0">>),
             Td(<<"5", "0", "0">>), Td(<<"Nord">>), Td(<<"TV">>), Td(<<"3">>)>>)

RankingPage(rankingdate, option, chosen, caption, rows) ==
    Page(TRUE, {"ruler"}, <<HeaderTr(FullHeader)>> \o rows, rankingdate, option, chosen, caption)

\* The page past the end of the ranking: the table without any data row.
EndPage == RankingPage(<<>>, <<>>, <<>>, <<>>, <<>>)

\* Ranks 1 and 2, week 5 of 2024.
FirstRanksPage ==
    RankingPage(<< <<"(", "5", "-", "2", "0", "2", "4", ")">> >>, <<>>, <<>>,
                << <<" ", "Herren", " ", " ", "Einzel">> >>,
                <<RankedRow(<<"1">>, <<"1">>), RankedRow(<<"2">>, <<"2">>)>>)

\* A rank that is no number before rank 2, no week, an empty caption.
UnrankedRowPage ==
    RankingPage(<<>>, <<>>, <<>>, << <<" ">> >>,
                <<RankedRow(<<"x">>, <<"5">>), RankedRow(<<"2">>, <<"1">>)>>)

\* A page without the Region, Verein and Turniere columns.
FewColumnsPage ==
    Page(TRUE, {"ruler"}, <<HeaderTr(PlainHeader), PlainRow, PlainRow>>,
         << <<"(", "1", "-", "2", "0", "2", "4", ")">> >>, <<>>, <<>>, <<>>)

SitePages ==
    { FirstRanksPage,
      UnrankedRowPage,
      FewColumnsPage,
      \* ranks 3 and 4, a rankingdate that is no week, week 12 in the option
      RankingPage(<< <<"(", "2", "0", "2", "4", ")">> >>, << <<" ", "1", "2", "-", "2", "0", "2", "4">> >>,
                  <<>>, << <<"Damen">> >>,
                  <<RankedRow(<<"3">>, <<"3">>), RankedRow(<<"4">>, <<"4">>)>>),
      \* one row, week 7 of 2025 in the chosen span
      RankingPage(<<>>, <<>>, << <<"7", "-", "2", "0", "2", "5">> >>, <<>>,
                  <<RankedRow(<<"3">>, <<"3">>)>>),
      \* ranks 5 and 6, week 5 of 2024
      RankingPage(<< <<"5", "-", "2", "0", "2", "4">> >>, <<>>, <<>>, <<>>,
                  <<RankedRow(<<"5">>, <<"5">>), RankedRow(<<"6">>, <<"6">>)>>),
      \* a page with one column more
      Page(TRUE, {"ruler"},
           <<HeaderTr(FullHeader \o <<Th(<<"Land">>)>>),
             DataTr(RankedRow(<<"1">>, <<"7">>).tds \o <<Td(<<"DE">>)>>),
             DataTr(RankedRow(<<"2">>, <<"8">>).tds \o <<Td(<<"DE">>)>>)>>,
           <<>>, <<>>, <<>>, <<>>),
      \* a page without the table
      NoTable }

Sites == SeqsUpTo(SitePages, MaxSitePages) \ {<<>>}

\* fetch_html_with_cookiewall for page p of the site.
Fetch(s, p) == IF p \in 1..Len(s) THEN s[p] ELSE EndPage

\* args; <<>> stands for an option that was not given.
MainArgs ==
    [page_size : {1, 2}, start_page : {1}, max_pages : {<<>>, <<1>>, <<2>>},
     max_rank : {<<>>, <<2>>, <<3>>}, keep_flag : {FALSE}, keep_raw : {FALSE},
     stream : BOOLEAN, to_sqlite : BOOLEAN]

-----------------------------------------------------------------------------
(* One run of main *)

MainInit ==
    /\ pc = "start"
    /\ site \in Sites
    /\ opts \in MainArgs
    /\ run = [page |-> opts.start_page, rank_week |-> <<>>, caption_text |-> <<>>,
              fieldnames |-> <<>>, pages_done |-> 0, written |-> 0, fetched |-> 0]
    /\ csv = NoCsv
    /\ db = {}
    /\ sunk = <<>>
    /\ html = NoTable /\ result = NoResult /\ cell = <<>>

\* The state main leaves behind after a page: parsed is what the parser
\* returned or raised, st the sinks after sink_write, r the local variables
\* with the page written, stop whether the run ends here.
PageDone(h, parsed, st, r, stop) ==
    /\ html' = h
    /\ result' = parsed
    /\ IF parsed.status # "ok"
       THEN /\ pc' = "crashed"
            /\ run' = [r EXCEPT !.pages_done = run.pages_done, !.written = run.written,
                                !.fieldnames = run.fieldnames]
            /\ UNCHANGED <<csv, db, sunk>>
       ELSE /\ csv' = st.csv
            /\ db' = st.db
            /\ sunk' = st.sunk
            /\ run' = IF st.ok THEN r
                      ELSE [r EXCEPT !.pages_done = run.pages_done, !.written = run.written]
            /\ pc' = IF ~st.ok THEN "crashed" ELSE IF stop THEN "done" ELSE "loop"
    /\ UNCHANGED <<opts, site, cell>>

\* Lines 70-138: the first page is fetched, parsed and written, then the
\* run ends or enters the loop.
MainFirstPage ==
    /\ pc = "start"
    /\ LET h == Fetch(site, run.page)
           wk == parse_rank_week(h)
           rank_week == IF wk = <<>> THEN <<"UnknownWeek">> ELSE wk[1]
           cap == extract_caption(h)
           caption_text == IF cap = <<>> \/ cap[1] = <<>> THEN <<"UnknownCategory">> ELSE cap[1]
       IN  \E parsed \in {parse_ruler_table(h, opts.keep_flag, rank_week, opts.keep_raw)} :
           \E fieldnames \in {compute_fieldnames(parsed.header_keys, opts.keep_raw)} :
           \E to_write \in {IF opts.max_rank # <<>>
                            THEN SelectSeq(parsed.rows, LAMBDA r : WithinRank(r, opts.max_rank[1]))
                            ELSE parsed.rows} :
           \E st \in {sink_write([csv |-> CsvOpen(fieldnames), db |-> db, sunk |-> sunk, ok |-> TRUE],
                                 to_write, fieldnames, opts.to_sqlite, caption_text, rank_week)} :
               PageDone(h, parsed, st,
                        [run EXCEPT !.rank_week = rank_week, !.caption_text = caption_text,
                                    !.fieldnames = fieldnames, !.fetched = 1,
                                    !.pages_done = 1, !.written = Len(to_write)],
                        \/ opts.max_rank # <<>> /\ Len(to_write) >= opts.max_rank[1]
                        \/ Len(parsed.rows) < opts.page_size
                        \/ PageLimitReached(opts, 1))

\* Lines 141-198: one turn of the loop over the later pages.
MainNextPage ==
    /\ pc = "loop"
    /\ LET page == run.page + 1
           h == Fetch(site, page)
           cut == opts.max_rank # <<>>
       IN  \E parsed \in {LaterPage(h, opts, run.rank_week)} :
           \E to_write \in {IF cut THEN RankPrefix(parsed.rows, opts.max_rank[1])
                            ELSE parsed.rows} :
           \E st \in {sink_write([csv |-> csv, db |-> db, sunk |-> sunk, ok |-> TRUE],
                                 to_write, run.fieldnames, opts.to_sqlite, run.caption_text,
                                 run.rank_week)} :
               LET written == IF cut THEN run.written + Len(to_write) ELSE run.written
                   broke == \/ cut /\ written >= opts.max_rank[1]
                            \/ cut /\ opts.stream /\ Len(to_write) = 0
                   pages_done == IF broke THEN run.pages_done ELSE run.pages_done + 1
               IN  PageDone(h, parsed, st,
                            [run EXCEPT !.page = page, !.fetched = @ + 1,
                                        !.pages_done = pages_done, !.written = written],
                            \/ broke
                            \/ Len(parsed.rows) < opts.page_size
                            \/ PageLimitReached(opts, pages_done))

MainNext == MainFirstPage \/ MainNextPage

SpecMain == MainInit /\ [][MainNext]_vars

\* The week the first fetched page shows, "UnknownWeek" when it shows none.
FirstPageWeek ==
    LET first == parse_rank_week(Fetch(site, opts.start_page))
    IN  IF first = <<>> THEN <<"UnknownWeek">> ELSE first[1]

(* C9: at every point of a run of main, every line the CSV sink has written,
   every record that was handed to the SQLite sink and every row of the
   table carries the RankWeek parsed from the first fetched page, or
   "UnknownWeek" when that page shows none; the week a later page shows is
   never used. *)
C9_OneRankWeek ==
    pc # "start" =>
        LET expected == FirstPageWeek
        IN  /\ \A i \in 1..Len(csv.lines) : \A j \in 1..Len(csv.header) :
                  csv.header[j] = "RankWeek" => csv.lines[i][j] = expected
            /\ \A i \in 1..Len(csv.lines) : InList(csv.header, "RankWeek")
            /\ \A i \in 1..Len(sunk) : sunk[i]["RankWeek"] = StrV(expected)
            /\ \A x \in db : x["RankWeek"] = StrV(expected)

\* A run that wrote the records of a second page whose own week is another
\* one, to both sinks.
C9_Witness ==
    /\ pc = "done"
    /\ run.fetched >= 2
    /\ Len(site) >= 2
    /\ parse_rank_week(site[2]) # <<>>
    /\ parse_rank_week(site[2]) # parse_rank_week(site[1])
    /\ Len(csv.lines) > Len(SelectSeq(site[1].trs, IsDataRow))
    /\ Len(sunk) = Len(csv.lines)
    /\ Cardinality(db) = Len(sunk)

-----------------------------------------------------------------------------
(* Calls of SQLiteSink.write_many on one table *)

MaxBatch == 2      \* most records of one call

\* Records as the parser returns them: the first row of the first page, the
\* rows of another page with their raw fields, a row of a page with fewer
\* columns.
SqlRecords ==
    LET rowsOf(pg, keep_raw) == parse_ruler_table(pg, FALSE, Week, keep_raw).rows
    IN  {rowsOf(FirstRanksPage, FALSE)[1], rowsOf(FewColumnsPage, FALSE)[1]}
            \cup {rowsOf(UnrankedRowPage, TRUE)[i] : i \in 1..2}

Batches == SeqsUpTo(SqlRecords, MaxBatch)

SqlCalls == [caption : {<<"Herren">>}, rank_week : {Week, <<"UnknownWeek">>}]

SqlInit ==
    /\ pc = "open"
    /\ db = {}
    /\ sunk = <<>>
    /\ result = {}
    /\ opts = <<>>
    /\ html = NoTable /\ site = <<>> /\ run = <<>> /\ csv = <<>> /\ cell = <<>>

\* A call that returns: sunk is the batch, opts the other arguments, result
\* the table before the call.
SqlWriteCommits ==
    /\ pc \in {"open", "written"}
    /\ \E rows \in Batches, call \in SqlCalls :
        \E q \in {write_many(db, rows, call.caption, call.rank_week)} :
            /\ q.ok
            /\ db' = q.table
            /\ sunk' = rows
            /\ opts' = call
    /\ result' = db
    /\ pc' = "written"
    /\ UNCHANGED <<html, site, run, csv, cell>>

\* A call that raises; the connection is rolled back and closed.
SqlWriteRaises ==
    /\ pc \in {"open", "written"}
    /\ \E rows \in Batches, call \in SqlCalls :
        \E q \in {write_many(db, rows, call.caption, call.rank_week)} :
            /\ ~q.ok
            /\ db' = q.table
            /\ sunk' = rows
            /\ opts' = call
    /\ result' = db
    /\ pc' = "failed"
    /\ UNCHANGED <<html, site, run, csv, cell>>

SqlNext == SqlWriteCommits \/ SqlWriteRaises

SpecSql == SqlInit /\ [][SqlNext]_vars

SameKey(x, y) == \A k \in KeyColumns : x[k] = y[k]

\* The key a record of the last call is written under.
CallKey(r) == [RankWeek |-> StrV(opts.rank_week), Caption |-> StrV(opts.caption),
               PlayerId |-> r["PlayerId"]]

(* C10: after every call of write_many the table holds at most one row per
   key (RankWeek, Caption, PlayerId); every record of the call has a row
   under its key, which holds the values of the last record written under
   that key in every other column the record has; the rows of other keys are
   the ones the table held before; and no row has a column outside the
   twelve of the table, so no _raw field is stored. *)
C10_UpsertByKey ==
    pc \in {"written", "failed"} =>
        /\ \A x \in db : \A y \in db : SameKey(x, y) => x = y
        /\ \A i \in 1..Len(sunk) :
              \E x \in db :
                  /\ SameKey(x, CallKey(sunk[i]))
                  /\ (\A j \in (i + 1)..Len(sunk) : sunk[j]["PlayerId"] # sunk[i]["PlayerId"])
                        => \A c \in (DOMAIN sunk[i] \cap ALLOWED_KEYS) \ KeyColumns :
                              x[c] = sunk[i][c]
        /\ \A x \in result :
              (\A i \in 1..Len(sunk) : ~SameKey(x, CallKey(sunk[i]))) => x \in db
        /\ \A x \in db : DOMAIN x = ALLOWED_KEYS

-----------------------------------------------------------------------------
(* One call of compute_fieldnames *)

MaxKeys == 3       \* most names of a header schema handed to the call

\* Names of a schema: regular columns, the week, names the raw list holds.
KeyNames == {"Rank", "Player", "PlayerId", "RankWeek", "Rank_raw", "Points_raw"}

FieldsInit ==
    /\ pc = "call"
    /\ opts \in [header_keys : SeqsUpTo(KeyNames, MaxKeys), keep_raw : BOOLEAN]
    /\ result = <<>>
    /\ html = NoTable
    /\ site = <<>> /\ run = <<>> /\ csv = <<>> /\ db = <<>> /\ sunk = <<>> /\ cell = <<>>

ComputeFields ==
    /\ pc = "call"
    /\ result' = compute_fieldnames(opts.header_keys, opts.keep_raw)
    /\ pc' = "returned"
    /\ UNCHANGED <<html, opts, site, run, csv, db, sunk, cell>>

SpecFields == FieldsInit /\ [][ComputeFields]_vars

\* How often a name stands in a list.
Count(s, x) == Cardinality({i \in 1..Len(s) : s[i] = x})

(* C11: the field order is the header schema in its original order without
   RankWeek, then, when raw retention is on, the raw names the schema does not
   hold already (none when it is off), then RankWeek once as the last name
   when the schema holds it; the insertion makes no name appear twice. *)
C11_FieldOrder ==
    Returned =>
        LET hk == opts.header_keys
            regular == SelectSeq(hk, LAMBDA k : k # "RankWeek")
            n == Len(regular)
            week == IF InList(hk, "RankWeek") THEN 1 ELSE 0
            added == SubSeq(result, n + 1, Len(result) - week)
            raw == {FIXED_RAW_FIELDS[i] : i \in 1..Len(FIXED_RAW_FIELDS)}
        IN  /\ Len(result) >= n + week
            /\ SubSeq(result, 1, n) = regular
            /\ week = 1 => result[Len(result)] = "RankWeek" /\ Count(result, "RankWeek") = 1
            /\ week = 0 => ~InList(result, "RankWeek")
            /\ opts.keep_raw =>
                  /\ {added[i] : i \in 1..Len(added)} = {k \in raw : ~InList(hk, k)}
                  /\ \A i \in 1..Len(added) : Count(added, added[i]) = 1
            /\ ~opts.keep_raw => added = <<>>
            /\ \A i \in 1..Len(result) :
                  Count(result, result[i]) <= IF InList(hk, result[i])
                                              THEN Count(regular, result[i]) + week
                                              ELSE 1

\* Raw retention on a schema that holds a raw name and the week before its
\* last place.
C11_Witness ==
    /\ Returned
    /\ opts.keep_raw
    /\ Len(opts.header_keys) = 3
    /\ opts.header_keys[1] = "Rank_raw"
    /\ opts.header_keys[2] = "RankWeek"
    /\ opts.header_keys[3] = "Rank"
    /\ Len(result) = 7

-----------------------------------------------------------------------------
(* The rank cutoff of a run of main *)

\* The records of the p-th fetched page of the run.
PageRows(p) ==
    parse_ruler_table(Fetch(site, opts.start_page + p - 1), opts.keep_flag, run.rank_week,
                      opts.keep_raw).rows

\* Of the pages fetched so far, the records whose Rank is an integer not
\* greater than the cutoff, in the order of the pages.
WithinCutoff ==
    Concat([p \in 1..run.fetched |->
              SelectSeq(PageRows(p), LAMBDA r : WithinRank(r, opts.max_rank[1]))])

(* C12: in a run with --max-rank N that no exception has ended, the records
   written to the sinks are, page by page, exactly the parsed records of the
   fetched pages whose Rank is an integer not greater than N: the CSV file
   holds their lines and, with --to-sqlite, the SQLite sink was handed
   them. *)
C12_WrittenIffWithinRank ==
    (pc \in {"loop", "done"} /\ opts.max_rank # <<>>) =>
        LET kept == WithinCutoff
        IN  /\ csv.lines = [i \in 1..Len(kept) |-> CsvLine(kept[i], csv.header)]
            /\ opts.to_sqlite => sunk = kept

\* Every row of the page fetched last is beyond the cutoff.
LastPageBeyondCutoff ==
    /\ opts.max_rank # <<>>
    /\ run.fetched >= 1
    /\ result.status = "ok"
    /\ result.rows # <<>>
    /\ \A i \in 1..Len(result.rows) :
          /\ "Rank" \in DOMAIN result.rows[i]
          /\ IsInt(result.rows[i]["Rank"])
          /\ result.rows[i]["Rank"].i > opts.max_rank[1]

(* C13: in a run with --max-rank N, once a fetched page has every row beyond
   N the run is over: main does not stand in the page loop about to fetch
   and parse another page, with --stream or without it. *)
C13_StopsBeyondCutoff == LastPageBeyondCutoff => pc # "loop"

-----------------------------------------------------------------------------
(* Raw retention against no raw retention *)

RawNames == {RawName(f) : f \in NumericFields}

\* The records of the same page under the same keep_flag and rank_week,
\* without raw retention.
RowsWithoutRaw == parse_ruler_table(html, opts.keep_flag, opts.rank_week, FALSE).rows

(* C14: for every page, the records returned with keep_raw true have, apart
   from the <Field>_raw entries, the fields of the records returned with
   keep_raw false for the same page and options, with the same values
   (PreviousRank and RankChange among them), and every <Field>_raw entry of a
   numeric field is the text the field held before the coercion. *)
C14_RawOnlyAdds ==
    (Returned /\ opts.keep_raw) =>
        LET plain == RowsWithoutRaw
            zh == ZipHeaders
        IN  /\ Len(plain) = Len(result.rows)
            /\ \A i \in RowIds :
                  LET r == result.rows[i]
                  IN  /\ DOMAIN r \ RawNames = DOMAIN plain[i] \ RawNames
                      /\ \A f \in DOMAIN r \ RawNames : r[f] = plain[i][f]
                      /\ \A f \in NumericFields :
                            InList(zh, f) =>
                                /\ RawName(f) \in DOMAIN r
                                /\ r[RawName(f)] = StrV(FieldText(zh, ZipValues(i), f))

-----------------------------------------------------------------------------
(* The records of a page against the fields of the CSV file *)

(* C15: for every header row, every key of every record returned by
   parse_ruler_table is a name of the returned header schema or, with keep_raw
   true, a name of the fixed raw list; so it is among
   compute_fieldnames(header_keys, keep_raw), and the CSV sink's writer
   accepts every record of the page. *)
C15_RecordKeysAreFields ==
    Returned =>
        LET fieldnames == compute_fieldnames(result.header_keys, opts.keep_raw)
        IN  \A i \in RowIds :
                /\ \A k \in DOMAIN result.rows[i] :
                      \/ InList(result.header_keys, k)
                      \/ opts.keep_raw /\ InList(FIXED_RAW_FIELDS, k)
                /\ \A k \in DOMAIN result.rows[i] : InList(fieldnames, k)
                /\ CsvAccepts(result.rows[i], fieldnames)
                /\ CsvWriteMany(CsvOpen(fieldnames), result.rows, fieldnames).ok

=============================================================================
